---- MODULE Spec2Model ----
(***************************************************************************)
(* kwrepr: keyword-style __repr__ generation.                              *)
(*                                                                         *)
(* Two specifications share the variables below.                           *)
(*   Spec   the attachment facility: apply_kwrepr / KWRepr.inject_repr /   *)
(*          KWRepr(...) applied again and again to one class, attribute    *)
(*          assignment on one instance of it, and repr(inst).              *)
(*   SpecX  one object is constructed once (KWRepr, DictFieldExtractor or  *)
(*          SlotsFieldExtractor) and then used on the instance.            *)
(* Text is modelled by TLA+ strings; Python values by a kind and the text  *)
(* str() gives for them.                                                   *)
(***************************************************************************)
EXTENDS Integers, Sequences, FiniteSets, TLC

VARIABLES
    cls,       \* the class under study
    inst,      \* the attribute storage of one instance of it
    reprFn,    \* the function installed as cls.__repr__
    attached,  \* the generator the last attachment that succeeded built, and whether
               \* that attachment replaced a function an earlier one had installed
    obj,       \* SpecX: the object constructed (KWRepr or a field extractor)
    last       \* the last call made and its outcome

vars == <<cls, inst, reprFn, attached, obj, last>>

(***************************************************************************)
(* Bounds                                                                  *)
(***************************************************************************)
\* most attributes an instance's __dict__ holds
MaxAttrs == 2

(***************************************************************************)
(* Text helpers (str.startswith, str.endswith, str.lstrip, str.join)       *)
(***************************************************************************)
startswith(s, p) == Len(s) >= Len(p) /\ SubSeq(s, 1, Len(p)) = p

endswith(s, p) == Len(s) >= Len(p) /\ SubSeq(s, Len(s) - Len(p) + 1, Len(s)) = p

RECURSIVE LStripUnderscores(_)
LStripUnderscores(s) ==
    IF Len(s) > 0 /\ SubSeq(s, 1, 1) = "_" THEN LStripUnderscores(Tail(s)) ELSE s

RECURSIVE Join(_, _)
Join(sep, parts) ==
    IF Len(parts) = 0 THEN ""
    ELSE IF Len(parts) = 1 THEN parts[1]
    ELSE parts[1] \o sep \o Join(sep, Tail(parts))

RECURSIVE Spaces(_)
Spaces(n) == IF n <= 0 THEN "" ELSE " " \o Spaces(n - 1)

Max(a, b) == IF a >= b THEN a ELSE b

InSeq(x, s) == \E i \in 1..Len(s) : s[i] = x

(***************************************************************************)
(* Python values: an int or a str, with the text str(value) gives.         *)
(***************************************************************************)
IntV(t) == [kind |-> "int", text |-> t]

StrV(t) == [kind |-> "str", text |-> t]

Unset == [kind |-> "unset", text |-> ""]

\* the values client code assigns to attributes
Vals == {IntV("7"), StrV("abcdefgh")}

(***************************************************************************)
(* The classes of the client program.                                      *)
(*   Point  plain class, per-instance __dict__                             *)
(*   Vec    nested class Geo.Vec with __slots__ = ("y", "x", "__x")        *)
(*   _T     __slots__ = ("__x",), class name with a leading underscore     *)
(*   Base   __slots__ = ("__x",)                                           *)
(*   Sub    class Sub(Base) with no __slots__ of its own                   *)
(*   int    the builtin: instances have no __dict__, type has no __slots__ *)
(***************************************************************************)
ClassNames == {"Point", "Vec", "_T", "Base", "Sub", "int"}

ClassTable(c) ==
    CASE c = "Point" -> [qualname |-> "Point",   base |-> "", builtin |-> FALSE,
                         declaresSlots |-> FALSE, ownSlots |-> <<>>,
                         attrNames |-> {"x", "y", "_p"}]
      [] c = "Vec"   -> [qualname |-> "Geo.Vec", base |-> "", builtin |-> FALSE,
                         declaresSlots |-> TRUE,  ownSlots |-> <<"y", "x", "__x">>,
                         attrNames |-> {}]
      [] c = "_T"    -> [qualname |-> "_T",      base |-> "", builtin |-> FALSE,
                         declaresSlots |-> TRUE,  ownSlots |-> <<"__x">>,
                         attrNames |-> {}]
      [] c = "Base"  -> [qualname |-> "Base",    base |-> "", builtin |-> FALSE,
                         declaresSlots |-> TRUE,  ownSlots |-> <<"__x">>,
                         attrNames |-> {}]
      [] c = "Sub"   -> [qualname |-> "Sub",     base |-> "Base", builtin |-> FALSE,
                         declaresSlots |-> FALSE, ownSlots |-> <<>>,
                         attrNames |-> {"x"}]
      [] c = "int"   -> [qualname |-> "int",     base |-> "", builtin |-> TRUE,
                         declaresSlots |-> FALSE, ownSlots |-> <<>>,
                         attrNames |-> {}]

\* type(inst).__name__
TypeName(c) == c

\* type(inst).__qualname__
QualName(c) == ClassTable(c).qualname

(***************************************************************************)
(* The host object model                                                   *)
(***************************************************************************)
\* instances carry a __dict__ unless the class and all its bases declare
\* __slots__; instances of the builtin carry none
RECURSIVE HasInstDict(_)
HasInstDict(c) ==
    LET t == ClassTable(c) IN
    /\ ~t.builtin
    /\ \/ ~t.declaresSlots
       \/ (t.base # "" /\ HasInstDict(t.base))

\* hasattr(class_, "__dict__"): every type object has a __dict__ attribute
\* (the mappingproxy of its namespace), whatever its instances carry
ClassHasDunderDict(c) == TRUE

\* hasattr(class_, "__slots__"): found on the class or inherited from a base
RECURSIVE ClassHasSlotsAttr(_)
ClassHasSlotsAttr(c) ==
    LET t == ClassTable(c) IN
    \/ t.declaresSlots
    \/ (t.base # "" /\ ClassHasSlotsAttr(t.base))

\* type(inst).__slots__: the nearest declaration along the bases, as written
RECURSIVE ClassSlots(_)
ClassSlots(c) ==
    LET t == ClassTable(c) IN
    IF t.declaresSlots THEN t.ownSlots
    ELSE IF t.base # "" THEN ClassSlots(t.base) ELSE <<>>

\* the name under which a slot declared as `ident` in class `c` is stored:
\* private names are mangled with the class name stripped of leading "_"
PyMangle(c, ident) ==
    IF startswith(ident, "__") /\ ~endswith(ident, "__")
    THEN LET stripped == LStripUnderscores(TypeName(c)) IN
         IF stripped = "" THEN ident ELSE "_" \o stripped \o ident
    ELSE ident

\* the slot descriptors an instance of c has, by storage name
RECURSIVE SlotStorageNames(_)
SlotStorageNames(c) ==
    LET t == ClassTable(c) IN
    {PyMangle(c, t.ownSlots[i]) : i \in 1..Len(t.ownSlots)}
        \cup (IF t.base # "" THEN SlotStorageNames(t.base) ELSE {})

\* the class along the bases of c whose __slots__ declares ident
RECURSIVE DeclaringClass(_, _)
DeclaringClass(c, ident) ==
    LET t == ClassTable(c) IN
    IF InSeq(ident, t.ownSlots) \/ t.base = "" THEN c ELSE DeclaringClass(t.base, ident)

\* the name under which an instance of c stores the slot declared as ident
SlotStorageName(c, ident) == PyMangle(DeclaringClass(c, ident), ident)

\* a fresh instance: empty __dict__, no slot set
NewInstance(c) == [dict |-> <<>>, slots |-> [n \in SlotStorageNames(c) |-> Unset]]

DictIndex(i, name) ==
    IF \E k \in 1..Len(i.dict) : i.dict[k].name = name
    THEN CHOOSE k \in 1..Len(i.dict) : i.dict[k].name = name
    ELSE 0

\* getattr(inst, name): slot descriptors first, then the instance __dict__
PyGetAttr(c, i, name) ==
    IF name \in SlotStorageNames(c)
    THEN [found |-> i.slots[name] # Unset, value |-> i.slots[name]]
    ELSE IF HasInstDict(c) /\ DictIndex(i, name) # 0
    THEN [found |-> TRUE, value |-> i.dict[DictIndex(i, name)].value]
    ELSE [found |-> FALSE, value |-> Unset]

\* setattr(inst, name, v): a dict keeps insertion order, an update keeps the place
PySetAttr(c, i, name, v) ==
    IF name \in SlotStorageNames(c)
    THEN [i EXCEPT !.slots[name] = v]
    ELSE IF DictIndex(i, name) # 0
    THEN [i EXCEPT !.dict[DictIndex(i, name)].value = v]
    ELSE [i EXCEPT !.dict = Append(i.dict, [name |-> name, value |-> v])]

(***************************************************************************)
(* Value rendering: builtins.repr, reprlib.Repr.repr, format               *)
(***************************************************************************)
\* x[a:b] for 0 <= a
Slice(t, a, b) == SubSeq(t, a + 1, IF b < Len(t) THEN b ELSE Len(t))

\* builtins.repr of a value
PyRepr(v) == IF v.kind = "str" THEN "'" \o v.text \o "'" ELSE v.text

\* reprlib.Repr defaults: maxstring, maxlong
DefaultMaxString == 30

DefaultMaxLong == 40

\* reprlib.Repr.fillvalue
FillValue == "..."

\* reprlib.Repr.repr_str / repr_int: the middle of a long text becomes "..."
ReprlibRepr(maxstring, v) ==
    IF v.kind = "str"
    THEN LET s == PyRepr(StrV(Slice(v.text, 0, maxstring))) IN
         IF Len(s) > maxstring
         THEN LET i  == Max(0, (maxstring - 3) \div 2)
                  j  == Max(0, maxstring - 3 - i)
                  s2 == PyRepr(StrV(Slice(v.text, 0, i)
                                    \o Slice(v.text, Len(v.text) - j, Len(v.text))))
              IN Slice(s2, 0, i) \o FillValue \o Slice(s2, Len(s2) - j, Len(s2))
         ELSE s
    ELSE LET s == PyRepr(v) IN
         IF Len(s) > DefaultMaxLong
         THEN LET i == Max(0, (DefaultMaxLong - 3) \div 2)
                  j == Max(0, DefaultMaxLong - 3 - i)
              IN Slice(s, 0, i) \o FillValue \o Slice(s, Len(s) - j, Len(s))
         ELSE s

DigitValue(d) ==
    CASE d = "0" -> 0 [] d = "1" -> 1 [] d = "2" -> 2 [] d = "3" -> 3 [] d = "4" -> 4
      [] d = "5" -> 5 [] d = "6" -> 6 [] d = "7" -> 7 [] d = "8" -> 8 [] d = "9" -> 9

\* format(value, spec) for the specifiers used here: "" is str(value),
\* ">N" right-aligns str(value) in a field of width N
PyFormat(v, spec) ==
    IF spec = "" THEN v.text
    ELSE IF startswith(spec, ">")
    THEN Spaces(DigitValue(Tail(spec)) - Len(v.text)) \o v.text
    ELSE v.text

(***************************************************************************)
(* Mappings (compute, format_spec) are functions from names; the computing *)
(* functions of the client program are named.                              *)
(***************************************************************************)
EmptyMap == [n \in {} |-> ""]

MapGet(m, k) == IF k \in DOMAIN m THEN m[k] ELSE ""

\* the computing functions: lambda inst: 42, lambda inst: type(inst).__name__
ComputeFns == {"answer", "tname"}

CallCompute(f, c, i) ==
    IF f = "answer" THEN IntV("42") ELSE StrV(TypeName(c))

(***************************************************************************)
(* BaseFieldExtractor                                                      *)
(***************************************************************************)
\* BaseFieldExtractor.__init__: the attributes of an extractor
BaseFieldExtractorInit(include, exclude, compute, format_spec, exclude_private, skip_missing, repr_config) ==
    [include         |-> IF include.given THEN include.v ELSE <<>>,
     exclude         |-> IF exclude.given THEN exclude.v ELSE <<>>,
     compute         |-> IF compute.given THEN compute.v ELSE EmptyMap,
     format_spec     |-> IF format_spec.given THEN format_spec.v ELSE EmptyMap,
     exclude_private |-> exclude_private,
     skip_missing    |-> skip_missing,
     maxstring       |-> IF repr_config.given THEN repr_config.v ELSE DefaultMaxString]

is_field_allowed(ex, field_name) ==
    IF startswith(field_name, "_") /\ ex.exclude_private THEN FALSE
    ELSE IF InSeq(field_name, ex.exclude) THEN FALSE
    ELSE TRUE

repr_field_value(ex, field_value) == ReprlibRepr(ex.maxstring, field_value)

\* the computing function registered for the name, if one is (a callable is truthy)
ComputerFor(ex, field_name) == MapGet(ex.compute, field_name)

\* variant: the computing function only fills in for a value that is not stored
ProcessedValueStoredFirst(ex, c, i, field_name, field_value) ==
    IF ComputerFor(ex, field_name) # "" /\ field_value = Unset
    THEN CallCompute(ComputerFor(ex, field_name), c, i)
    ELSE field_value

\* the value process_field_value renders: computed if a computer is registered
ProcessedValue(ex, c, i, field_name, field_value) ==
    IF ComputerFor(ex, field_name) # ""
    THEN CallCompute(ComputerFor(ex, field_name), c, i)
    ELSE field_value

\* the walrus test `if format_spec := self.format_spec.get(field_name)`:
\* a missing key gives None and an empty specifier is falsy as well
FormatSpecFor(ex, field_name) == MapGet(ex.format_spec, field_name)

process_field_value(ex, c, i, field_name, field_value) ==
    LET v == ProcessedValue(ex, c, i, field_name, field_value) IN
    IF FormatSpecFor(ex, field_name) # ""
    THEN PyFormat(v, FormatSpecFor(ex, field_name))
    ELSE repr_field_value(ex, v)

(***************************************************************************)
(* extract_fields of the three extractors.  A result is                    *)
(*   [status, fields, calls, error]: status "ok" or the exception type,    *)
(*   fields the (name, text) pairs yielded, calls the names whose          *)
(*   computing function was called, error the exception message.           *)
(***************************************************************************)
Yielded(acc) == [status |-> "ok", fields |-> acc.fields, calls |-> acc.calls, error |-> ""]

Raised(type, msg) == [status |-> type, fields |-> <<>>, calls |-> <<>>, error |-> msg]

EmptyAcc == [fields |-> <<>>, calls |-> <<>>]

\* one `yield field_name, process_field_value(...)`
Emit(ex, c, i, acc, field_name, field_value) ==
    [fields |-> Append(acc.fields,
                       [name |-> field_name,
                        text |-> process_field_value(ex, c, i, field_name, field_value)]),
     calls  |-> IF ComputerFor(ex, field_name) # ""
                THEN Append(acc.calls, field_name) ELSE acc.calls]

RECURSIVE DictLoop(_, _, _, _, _)
DictLoop(ex, c, i, k, acc) ==
    IF k > Len(i.dict) THEN Yielded(acc)
    ELSE IF ~is_field_allowed(ex, i.dict[k].name)
    THEN DictLoop(ex, c, i, k + 1, acc)
    ELSE DictLoop(ex, c, i, k + 1, Emit(ex, c, i, acc, i.dict[k].name, i.dict[k].value))

\* DictFieldExtractor.extract_fields: vars(inst) raises for an instance without __dict__
DictExtractFields(ex, c, i) ==
    IF ~HasInstDict(c)
    THEN Raised("TypeError", "vars() argument must have __dict__ attribute")
    ELSE DictLoop(ex, c, i, 1, EmptyAcc)

\* the name the slot loop looks up
SlotLookupName(c, field_name) ==
    IF startswith(field_name, "__") /\ ~endswith(field_name, "__")
    THEN "_" \o TypeName(c) \o field_name
    ELSE field_name

RECURSIVE SlotsLoop(_, _, _, _, _, _)
SlotsLoop(ex, c, i, slots, k, acc) ==
    IF k > Len(slots) THEN Yielded(acc)
    ELSE IF ~is_field_allowed(ex, slots[k])
    THEN SlotsLoop(ex, c, i, slots, k + 1, acc)
    ELSE LET field_name == SlotLookupName(c, slots[k])
             got == PyGetAttr(c, i, field_name)
         IN IF ~got.found
            THEN IF ex.skip_missing
                 THEN SlotsLoop(ex, c, i, slots, k + 1, acc)
                 ELSE Raised("AttributeError", "Missing required attribute: " \o field_name)
            ELSE SlotsLoop(ex, c, i, slots, k + 1,
                           Emit(ex, c, i, acc, field_name, got.value))

\* SlotsFieldExtractor.extract_fields: type(inst).__slots__ raises when no
\* class along the bases declares __slots__
SlotsExtractFields(ex, c, i) ==
    IF ~ClassHasSlotsAttr(c)
    THEN Raised("AttributeError", "type object has no attribute '__slots__'")
    ELSE SlotsLoop(ex, c, i, ClassSlots(c), 1, EmptyAcc)

RECURSIVE IncludedLoop(_, _, _, _, _)
IncludedLoop(ex, c, i, k, acc) ==
    IF k > Len(ex.include) THEN Yielded(acc)
    ELSE LET field_name == ex.include[k]
             got == PyGetAttr(c, i, field_name)
         IN IF ~got.found
            THEN IF ex.skip_missing
                 THEN IncludedLoop(ex, c, i, k + 1, acc)
                 ELSE Raised("AttributeError", "Missing required attribute: " \o field_name)
            ELSE IncludedLoop(ex, c, i, k + 1, Emit(ex, c, i, acc, field_name, got.value))

\* IncludedFieldExtractor.extract_fields: the inclusion list in its order, unfiltered
IncludedExtractFields(ex, c, i) == IncludedLoop(ex, c, i, 1, EmptyAcc)

\* extract_fields of an extractor of class fx
ExtractFields(fx, ex, c, i) ==
    CASE fx = "DictFieldExtractor"     -> DictExtractFields(ex, c, i)
      [] fx = "SlotsFieldExtractor"    -> SlotsExtractFields(ex, c, i)
      [] fx = "IncludedFieldExtractor" -> IncludedExtractFields(ex, c, i)

(***************************************************************************)
(* Keyword arguments: an argument is passed (given) or left out / None.    *)
(***************************************************************************)
Given(v) == [given |-> TRUE, v |-> v]

NotGiven(dummy) == [given |-> FALSE, v |-> dummy]

\* the value a parameter is bound to: the argument, or the parameter's default
ArgOr(arg, default) == IF arg.given THEN arg.v ELSE default

NoArgs ==
    [include         |-> NotGiven(<<>>),
     exclude         |-> NotGiven(<<>>),
     compute         |-> NotGiven(EmptyMap),
     format_spec     |-> NotGiven(EmptyMap),
     exclude_private |-> NotGiven(FALSE),
     skip_missing    |-> NotGiven(FALSE),
     repr_config     |-> NotGiven(0),
     delimiters      |-> NotGiven(<<>>)]

(***************************************************************************)
(* KWRepr                                                                  *)
(***************************************************************************)
\* KWRepr.DELIMITERS
DELIMITERS == <<"(", ")">>

NoObj ==
    [tag |-> "none", fx |-> "",
     ex  |-> BaseFieldExtractorInit(NoArgs.include, NoArgs.exclude, NoArgs.compute,
                                    NoArgs.format_spec, FALSE, FALSE, NoArgs.repr_config),
     delimiters |-> <<>>]

\* KWRepr.resolve_field_extractor: the extractor class, or "TypeError"
resolve_field_extractor(c, include) ==
    IF include.given THEN "IncludedFieldExtractor"
    ELSE IF ClassHasDunderDict(c) THEN "DictFieldExtractor"
    ELSE IF ClassHasSlotsAttr(c) THEN "SlotsFieldExtractor"
    ELSE "TypeError"

\* variant: `if include and exclude`, which lets an empty list through
BothGivenTruthy(a) == Len(a.include.v) > 0 /\ Len(a.exclude.v) > 0

\* `include is not None and exclude is not None`
BothGiven(a) == a.include.given /\ a.exclude.given

\* `delimiters or self.DELIMITERS`: None and an empty tuple are falsy
DelimitersOrDefault(delimiters) ==
    IF delimiters.given /\ Len(delimiters.v) > 0 THEN delimiters.v ELSE DELIMITERS

\* KWRepr.__init__(class_or_inst, **a): [status, obj]
KWReprInit(c, a) ==
    LET exclude_private == ArgOr(a.exclude_private, TRUE)
        skip_missing    == ArgOr(a.skip_missing, FALSE)
        fx              == resolve_field_extractor(c, a.include)
    IN IF BothGiven(a)
       THEN [status |-> "ValueError", obj |-> NoObj]
       ELSE IF fx = "TypeError"
       THEN [status |-> "TypeError", obj |-> NoObj]
       ELSE [status |-> "ok",
             obj |-> [tag |-> "KWRepr", fx |-> fx,
                      ex  |-> BaseFieldExtractorInit(a.include, a.exclude, a.compute,
                                                     a.format_spec, exclude_private,
                                                     skip_missing, a.repr_config),
                      delimiters |-> DelimitersOrDefault(a.delimiters)]]

\* Dict/SlotsFieldExtractor(**a): the extractor object on its own
FieldExtractorInit(fx, a) ==
    [tag |-> fx, fx |-> fx,
     ex  |-> BaseFieldExtractorInit(a.include, a.exclude, a.compute, a.format_spec,
                                    ArgOr(a.exclude_private, TRUE),
                                    ArgOr(a.skip_missing, FALSE), a.repr_config),
     delimiters |-> <<>>]

FieldText(f) == f.name \o "=" \o f.text

\* variant: every pair is followed by the separator
generate_bodyTrailing(fields) ==
    Join("", [k \in 1..Len(fields) |-> FieldText(fields[k]) \o ", "])

\* KWRepr.generate_body
generate_body(fields) == Join(", ", [k \in 1..Len(fields) |-> FieldText(fields[k])])

\* KWRepr.generate_str on the fields already extracted
generate_str(kw, c, fields) ==
    Join("", <<QualName(c), kw.delimiters[1], generate_body(fields), kw.delimiters[2]>>)

\* KWRepr.generate: [status, fields, calls, error, text]; the fields are
\* pulled while the body is joined, so an exception leaves no text
generate(kw, c, i) ==
    IF Len(kw.delimiters) # 2
    THEN [status |-> "ValueError", fields |-> <<>>, calls |-> <<>>,
          error |-> "wrong number of values to unpack", text |-> ""]
    ELSE LET r == ExtractFields(kw.fx, kw.ex, c, i) IN
         [status |-> r.status, fields |-> r.fields, calls |-> r.calls, error |-> r.error,
          text   |-> IF r.status = "ok" THEN generate_str(kw, c, r.fields) ELSE ""]

(***************************************************************************)
(* Attachment: KWRepr.inject_repr and apply_kwrepr                         *)
(***************************************************************************)
\* object.__repr__, the display method of a class nothing was attached to
ObjectRepr == [tag |-> "object.__repr__", qualname |-> "object.__repr__", kw |-> NoObj]

\* the arguments inject_repr hands to cls(...): every parameter is passed on,
\* the two flags bound to inject_repr's own defaults when left out
InjectBound(a) ==
    [a EXCEPT !.exclude_private = Given(ArgOr(a.exclude_private, FALSE)),
              !.skip_missing    = Given(ArgOr(a.skip_missing, FALSE))]

\* variant: a class that already has a _repr installed keeps it
inject_reprKeepFirst(c, a, cur) ==
    LET r == KWReprInit(c, InjectBound(a)) IN
    IF r.status # "ok" THEN [status |-> r.status, fn |-> cur]
    ELSE IF ClassTable(c).builtin THEN [status |-> "TypeError", fn |-> cur]
    ELSE IF cur.tag = "_repr" THEN [status |-> "ok", fn |-> cur]
    ELSE [status |-> "ok",
          fn |-> [tag |-> "_repr", qualname |-> TypeName(c) \o ".__repr__", kw |-> r.obj]]

\* KWRepr.inject_repr(class_, **a) with cur installed: [status, fn].
\* cls(...) may raise before anything is assigned; assigning __repr__ to a
\* builtin type raises TypeError (immutable type)
inject_repr(c, a, cur) ==
    LET r == KWReprInit(c, InjectBound(a)) IN
    IF r.status # "ok" THEN [status |-> r.status, fn |-> cur]
    ELSE IF ClassTable(c).builtin THEN [status |-> "TypeError", fn |-> cur]
    ELSE [status |-> "ok",
          fn |-> [tag |-> "_repr", qualname |-> TypeName(c) \o ".__repr__", kw |-> r.obj]]

\* the arguments apply_kwrepr's inner inject_repr hands to KWRepr.inject_repr
ApplyBound(a) ==
    [a EXCEPT !.exclude_private = Given(ArgOr(a.exclude_private, TRUE)),
              !.skip_missing    = Given(ArgOr(a.skip_missing, FALSE))]

\* apply_kwrepr(class_, **a) and apply_kwrepr(**a)(class_)
apply_kwrepr(c, a, cur) == inject_repr(c, ApplyBound(a), cur)

(***************************************************************************)
(* The calls the client program makes                                      *)
(***************************************************************************)
IncludeArgs == {NotGiven(<<>>), Given(<<"y", "x">>)}

ExcludeArgs == {NotGiven(<<>>), Given(<<"y">>), Given(<<"y", "_Vec__x">>)}

ComputeArgs == {NotGiven(EmptyMap), Given(("x" :> "answer") @@ ("_Vec__x" :> "tname"))}

FormatArgs ==
    {NotGiven(EmptyMap), Given("x" :> ">3"), Given(("x" :> "") @@ ("y" :> ">9"))}

FlagArgs == {NotGiven(FALSE), Given(TRUE), Given(FALSE)}

ReprConfigArgs == {NotGiven(0), Given(6)}

DelimiterArgs == {NotGiven(<<>>), Given(<<"[", "]">>)}

\* the keyword arguments of an attachment
AttachArgs ==
    [include         : IncludeArgs,
     exclude         : {NotGiven(<<>>), Given(<<>>), Given(<<"y">>)},
     compute         : {NotGiven(EmptyMap)},
     format_spec     : {NotGiven(EmptyMap)},
     exclude_private : FlagArgs,
     skip_missing    : {NotGiven(FALSE)},
     repr_config     : {NotGiven(0)},
     delimiters      : {NotGiven(<<>>)}]

\* the keyword arguments of KWRepr(...) in SpecX
CtorArgs ==
    [include         : IncludeArgs,
     exclude         : ExcludeArgs,
     compute         : ComputeArgs,
     format_spec     : FormatArgs,
     exclude_private : FlagArgs,
     skip_missing    : {NotGiven(FALSE), Given(TRUE)},
     repr_config     : ReprConfigArgs,
     delimiters      : DelimiterArgs]

\* the keyword arguments of DictFieldExtractor(...) / SlotsFieldExtractor(...)
ExtractorArgs ==
    [include         : {NotGiven(<<>>)},
     exclude         : ExcludeArgs,
     compute         : ComputeArgs,
     format_spec     : FormatArgs,
     exclude_private : {Given(TRUE), Given(FALSE)},
     skip_missing    : {NotGiven(FALSE), Given(TRUE)},
     repr_config     : ReprConfigArgs,
     delimiters      : {NotGiven(<<>>)}]

\* the record of a call op(**a) that ended with status
Call(op, a, status) ==
    [op |-> op, status |-> status, args |-> a,
     fields |-> <<>>, calls |-> <<>>, error |-> "", text |-> ""]

\* the record of a call op(inst) that ended as r
Outcome(op, r) ==
    [op |-> op, status |-> r.status, args |-> NoArgs,
     fields |-> r.fields, calls |-> r.calls, error |-> r.error, text |-> r.text]

\* no attachment has succeeded yet
NotAttached == [kw |-> NoObj, replaced |-> FALSE]

Init ==
    /\ cls \in ClassNames
    /\ inst = NewInstance(cls)
    /\ reprFn = ObjectRepr
    /\ attached = NotAttached
    /\ obj = NoObj
    /\ last = Call("init", NoArgs, "ok")

\* what an attachment called as op(**a), binding its parameters to `bound`,
\* leaves behind when inject_repr ended as r
Attach(op, a, bound, r) ==
    /\ reprFn' = r.fn
    /\ attached' = IF r.status = "ok"
                   THEN [kw |-> KWReprInit(cls, bound).obj, replaced |-> reprFn.tag = "_repr"]
                   ELSE attached
    /\ last' = Call(op, a, r.status)
    /\ UNCHANGED <<cls, inst, obj>>

\* apply_kwrepr(C, **a)
ApplyKwreprDirect ==
    \E a \in AttachArgs :
        Attach("apply_kwrepr", a, ApplyBound(a), apply_kwrepr(cls, a, reprFn))

\* @apply_kwrepr(**a) on C: the wrapper returned is applied to the class
ApplyKwreprFactory ==
    \E a \in AttachArgs :
        Attach("apply_kwrepr", a, ApplyBound(a), apply_kwrepr(cls, a, reprFn))

\* KWRepr.inject_repr(C, **a)
InjectRepr ==
    \E a \in AttachArgs :
        Attach("inject_repr", a, InjectBound(a), inject_repr(cls, a, reprFn))

\* KWRepr(C, **a), the generator dropped again
ConstructKWRepr ==
    \E a \in AttachArgs :
        /\ last' = Call("KWRepr", a, KWReprInit(cls, a).status)
        /\ UNCHANGED <<cls, inst, reprFn, attached, obj>>

\* the names client code assigns on an instance of c
AssignableNames(c) == ClassTable(c).attrNames \cup SlotStorageNames(c)

\* inst.name = v
SetAttr ==
    \E name \in AssignableNames(cls), v \in Vals :
        /\ \/ name \in SlotStorageNames(cls)
           \/ DictIndex(inst, name) # 0
           \/ Len(inst.dict) < MaxAttrs
        /\ inst' = PySetAttr(cls, inst, name, v)
        /\ last' = Call("setattr", NoArgs, "ok")
        /\ UNCHANGED <<cls, reprFn, attached, obj>>

\* object.__repr__(inst), the address left out
DefaultRepr(c) ==
    [status |-> "ok", fields |-> <<>>, calls |-> <<>>, error |-> "",
     text |-> "<" \o QualName(c) \o " object>"]

\* repr(inst): the installed _repr calls kwrepr.generate(inst)
Display(fn, c, i) == IF fn.tag = "_repr" THEN generate(fn.kw, c, i) ELSE DefaultRepr(c)

Repr ==
    /\ last' = Outcome("repr", Display(reprFn, cls, inst))
    /\ UNCHANGED <<cls, inst, reprFn, attached, obj>>

Next ==
    \/ ApplyKwreprDirect
    \/ ApplyKwreprFactory
    \/ InjectRepr
    \/ ConstructKWRepr
    \/ SetAttr
    \/ Repr

Spec == Init /\ [][Next]_vars

(***************************************************************************)
(* SpecX: one object is constructed, then used                             *)
(***************************************************************************)
\* no constructor has been called yet
NothingConstructed == obj.tag = "none" /\ last.op \in {"init", "setattr"}

\* kw = KWRepr(C, **a)
NewKWRepr ==
    \E a \in CtorArgs :
        /\ NothingConstructed
        /\ obj' = KWReprInit(cls, a).obj
        /\ last' = Call("KWRepr", a, KWReprInit(cls, a).status)
        /\ UNCHANGED <<cls, inst, reprFn, attached>>

\* fx = DictFieldExtractor(**a)
NewDictFieldExtractor ==
    \E a \in ExtractorArgs :
        /\ NothingConstructed
        /\ obj' = FieldExtractorInit("DictFieldExtractor", a)
        /\ last' = Call("DictFieldExtractor", a, "ok")
        /\ UNCHANGED <<cls, inst, reprFn, attached>>

\* fx = SlotsFieldExtractor(**a)
NewSlotsFieldExtractor ==
    \E a \in ExtractorArgs :
        /\ NothingConstructed
        /\ obj' = FieldExtractorInit("SlotsFieldExtractor", a)
        /\ last' = Call("SlotsFieldExtractor", a, "ok")
        /\ UNCHANGED <<cls, inst, reprFn, attached>>

\* kw.generate(inst)
Generate ==
    /\ obj.tag = "KWRepr"
    /\ last' = Outcome("generate", generate(obj, cls, inst))
    /\ UNCHANGED <<cls, inst, reprFn, attached, obj>>

\* list(fx.extract_fields(inst))
Extract ==
    /\ obj.tag \in {"DictFieldExtractor", "SlotsFieldExtractor"}
    /\ last' = Outcome("extract_fields",
                       [status |-> ExtractFields(obj.fx, obj.ex, cls, inst).status,
                        fields |-> ExtractFields(obj.fx, obj.ex, cls, inst).fields,
                        calls  |-> ExtractFields(obj.fx, obj.ex, cls, inst).calls,
                        error  |-> ExtractFields(obj.fx, obj.ex, cls, inst).error,
                        text   |-> ""])
    /\ UNCHANGED <<cls, inst, reprFn, attached, obj>>

NextX ==
    \/ NewKWRepr
    \/ NewDictFieldExtractor
    \/ NewSlotsFieldExtractor
    \/ SetAttr
    \/ Generate
    \/ Extract

SpecX == Init /\ [][NextX]_vars

(***************************************************************************)
(* Properties                                                              *)
(***************************************************************************)
AttachOps == {"apply_kwrepr", "inject_repr", "KWRepr"}

Generated == last.op \in {"generate", "extract_fields"} /\ last.status = "ok"

Names(fields) == [k \in 1..Len(fields) |-> fields[k].name]

Count(x, s) == Cardinality({k \in 1..Len(s) : s[k] = x})

\* name=value pairs separated by ", ", built from the last pair backwards
RECURSIVE BodyOf(_)
BodyOf(fs) ==
    IF Len(fs) = 0 THEN ""
    ELSE LET n == Len(fs)
             pair == fs[n].name \o "=" \o fs[n].text
         IN IF n = 1 THEN pair ELSE BodyOf(SubSeq(fs, 1, n - 1)) \o ", " \o pair

\* the fields follow the insertion order of the instance's __dict__
InInsertionOrder(fs) ==
    /\ \A k \in 1..Len(fs) : DictIndex(inst, fs[k].name) # 0
    /\ \A j, k \in 1..Len(fs) :
           j < k => DictIndex(inst, fs[j].name) < DictIndex(inst, fs[k].name)

\* the place of an emitted name in type(inst).__slots__ (0: not a slot)
SlotPos(name) ==
    LET slots == ClassSlots(cls)
        hits  == {k \in 1..Len(slots) : SlotLookupName(cls, slots[k]) = name}
    IN IF hits = {} THEN 0 ELSE CHOOSE k \in hits : TRUE

\* the fields follow the declaration order of __slots__
InDeclarationOrder(fs) ==
    /\ \A k \in 1..Len(fs) : SlotPos(fs[k].name) # 0
    /\ \A j, k \in 1..Len(fs) : j < k => SlotPos(fs[j].name) < SlotPos(fs[k].name)

C2_BothAlwaysFails ==
    [][(last'.op \in AttachOps /\ last'.args.include.given /\ last'.args.exclude.given)
          => (last'.status = "ValueError" /\ reprFn' = reprFn)]_vars

C2_Witness ==
    /\ last.op \in {"apply_kwrepr", "inject_repr"}
    /\ last.args.include.given /\ last.args.exclude.given
    /\ last.args.exclude_private.given
    /\ last.status = "ValueError"
    /\ reprFn.tag = "_repr"

\* C3: KWRepr(...) picks the explicit-include extractor when an inclusion
\* list is given, else the dict extractor for a class whose instances carry
\* a __dict__, else the slot extractor for a class with __slots__, else it
\* fails with TypeError.
C3_ExtractorChoice ==
    (last.op = "KWRepr" /\ ~(last.args.include.given /\ last.args.exclude.given)) =>
        IF last.args.include.given
        THEN last.status = "ok" /\ obj.fx = "IncludedFieldExtractor"
        ELSE IF HasInstDict(cls)
        THEN last.status = "ok" /\ obj.fx = "DictFieldExtractor"
        ELSE IF ClassHasSlotsAttr(cls)
        THEN last.status = "ok" /\ obj.fx = "SlotsFieldExtractor"
        ELSE last.status = "TypeError"

\* C4: with the dict or the slot extractor no emitted field name starts
\* with "_" while exclude_private is on, and no emitted field name is in the
\* exclusion list.
C4_FilteredNames ==
    (Generated /\ obj.fx \in {"DictFieldExtractor", "SlotsFieldExtractor"}) =>
        \A k \in 1..Len(last.fields) :
            /\ obj.ex.exclude_private => ~startswith(last.fields[k].name, "_")
            /\ ~InSeq(last.fields[k].name, obj.ex.exclude)

\* the declared slots the configuration lets through
AllowedSlots ==
    LET Allowed(s) == is_field_allowed(obj.ex, s) IN SelectSeq(ClassSlots(cls), Allowed)

\* the slot declared as s has a value on the instance
SlotIsSet(s) == inst.slots[SlotStorageName(cls, s)] # Unset

\* C5: generating the display of an instance of a slots-only class with a
\* declared slot never set gives, with skip_missing, a complete string with
\* exactly the slots that are set, in order, and without skip_missing an
\* AttributeError and no string.
C5_SkipMissing ==
    (/\ last.op = "generate"
     /\ obj.fx # "IncludedFieldExtractor"
     /\ ~HasInstDict(cls) /\ ClassHasSlotsAttr(cls)
     /\ \E k \in 1..Len(AllowedSlots) : ~SlotIsSet(AllowedSlots[k])) =>
        IF obj.ex.skip_missing
        THEN /\ last.status = "ok"
             /\ Len(last.fields) = Len(SelectSeq(AllowedSlots, SlotIsSet))
        ELSE last.status = "AttributeError" /\ last.text = ""

\* the text process_field_value gives value v of the field called name
RenderedAs(ex, name, v) ==
    IF name \in DOMAIN ex.format_spec /\ ex.format_spec[name] # ""
    THEN PyFormat(v, ex.format_spec[name])
    ELSE ReprlibRepr(ex.maxstring, v)

\* C6: with the dict or the slot extractor an emitted field whose name has a
\* computing function shows the function's result for the instance, not the
\* stored value, and the function is called once in that generation; no
\* function is called for a name that is not emitted.
C6_ComputedShown ==
    (Generated /\ obj.fx \in {"DictFieldExtractor", "SlotsFieldExtractor"}) =>
        /\ \A k \in 1..Len(last.fields) :
               LET n == last.fields[k].name IN
               n \in DOMAIN obj.ex.compute =>
                   /\ last.fields[k].text =
                          RenderedAs(obj.ex, n, CallCompute(obj.ex.compute[n], cls, inst))
                   /\ last.fields[k].text #
                          RenderedAs(obj.ex, n, PyGetAttr(cls, inst, n).value)
                   /\ Count(n, last.calls) = 1
        /\ \A j \in 1..Len(last.calls) : InSeq(last.calls[j], Names(last.fields))

C6_Witness ==
    /\ last.op = "extract_fields" /\ last.status = "ok"
    /\ obj.fx = "SlotsFieldExtractor"
    /\ Names(last.fields) = <<"x", "_Vec__x">>
    /\ DOMAIN obj.ex.compute = {"x", "_Vec__x"}
    /\ last.calls = <<"x", "_Vec__x">>

\* the value an emitted field shows: computed if a function is registered
ShownValue(name) ==
    IF name \in DOMAIN obj.ex.compute
    THEN CallCompute(obj.ex.compute[name], cls, inst)
    ELSE PyGetAttr(cls, inst, name).value

\* C7: an emitted field whose name is a key of format_spec is the shown
\* value formatted with that specifier (the empty one included); a field
\* whose name is no key is rendered by the bounded renderer.
C7_FormatByKey ==
    Generated =>
        \A k \in 1..Len(last.fields) :
            LET n == last.fields[k].name IN
            IF n \in DOMAIN obj.ex.format_spec
            THEN last.fields[k].text = PyFormat(ShownValue(n), obj.ex.format_spec[n])
            ELSE last.fields[k].text = ReprlibRepr(obj.ex.maxstring, ShownValue(n))

\* C8: repr(inst) is what the generator of the last attachment that
\* succeeded produces on its own (object.__repr__ before any), whatever was
\* attached or failed to attach before.
C8_LastAttachmentDecides ==
    last.op = "repr" =>
        LET expected == IF attached.kw.tag = "KWRepr"
                        THEN generate(attached.kw, cls, inst)
                        ELSE DefaultRepr(cls)
        IN /\ last.status = expected.status
           /\ last.text = expected.text
           /\ last.fields = expected.fields

C8_Witness ==
    /\ last.op = "repr" /\ last.status = "ok"
    /\ attached.replaced
    /\ attached.kw.fx = "DictFieldExtractor"
    /\ ~attached.kw.ex.exclude_private
    /\ Names(last.fields) = <<"_p", "x">>

\* C9: with the slot extractor and exclude_private off, a private slot that
\* is set on the instance and not excluded is found and rendered under its
\* storage name, never reported missing or skipped.
C9_PrivateSlotFound ==
    (/\ last.op = "extract_fields"
     /\ obj.fx = "SlotsFieldExtractor"
     /\ ~obj.ex.exclude_private
     /\ ClassHasSlotsAttr(cls)) =>
        \A k \in 1..Len(ClassSlots(cls)) :
            LET s == ClassSlots(cls)[k] IN
            (/\ startswith(s, "__") /\ ~endswith(s, "__")
             /\ ~InSeq(s, obj.ex.exclude)
             /\ SlotIsSet(s)) =>
                /\ last.status = "ok" => InSeq(SlotStorageName(cls, s), Names(last.fields))
                /\ last.status # "ok" => ~endswith(last.error, s)

\* C10: the function apply_kwrepr installs displays every instance as the
\* function KWRepr.inject_repr installs when called with the same options
\* passed and the same options left out.
C10_ThinWrapper ==
    (last.op = "apply_kwrepr" /\ last.status = "ok") =>
        LET twin == inject_repr(cls, last.args, ObjectRepr).fn IN
        /\ Display(reprFn, cls, inst).status = Display(twin, cls, inst).status
        /\ Display(reprFn, cls, inst).text = Display(twin, cls, inst).text

====
